---- MODULE Spec2Model ----
(***************************************************************************)
(* Model of the progressive deployment declared by StandardLambdaFunction  *)
(* (lib/constructs/lambda-function.ts): an alias, a CodeDeploy deployment  *)
(* group whose traffic-shifting configuration is chosen by                 *)
(* getDeploymentConfig, and a CloudWatch error-rate alarm that rolls a     *)
(* deployment back.  Time advances in one-minute alarm periods.            *)
(* The alias's provisioned concurrency is scaled on utilization, and the   *)
(* deployed handler (src/lambda/api/index.ts) serves the phrase API over   *)
(* one table with an atomic counter (layers/common/src/utilities.ts).      *)
(***************************************************************************)
EXTENDS Integers, Sequences, FiniteSets, TLC

VARIABLES functionConfig, alias, deploymentGroup, errorAlarm, deploymentConfig,
          state, steps, currentStepIndex, elapsed, split, history,
          rollbackSignals, rollbackReason, stableVersion, candidateVersion,
          lastPeriod,
          autoScaling, scalableTarget, warmPool,
          table, requests, initialCounter

vars == <<functionConfig, alias, deploymentGroup, errorAlarm, deploymentConfig,
          state, steps, currentStepIndex, elapsed, split, history,
          rollbackSignals, rollbackReason, stableVersion, candidateVersion,
          lastPeriod,
          autoScaling, scalableTarget, warmPool,
          table, requests, initialCounter>>

constructVars == <<functionConfig, alias, deploymentGroup, errorAlarm, deploymentConfig>>

deploymentVars == <<constructVars, state, steps, currentStepIndex, elapsed, split, history,
                    rollbackSignals, rollbackReason, stableVersion, candidateVersion,
                    lastPeriod>>

scaleVars == <<autoScaling, scalableTarget, warmPool>>

apiVars == <<table, requests, initialCounter>>

\* ------------------------------------------------------------------ bounds
\* Largest evaluationPeriods a configuration is given.
MaxEvaluationPeriods == 3

\* Number of most recent window records the deployment history keeps.
MaxHistory == 5

\* ------------------------------------------------------ configuration space
KnownPreferences ==
    { "LINEAR_10PERCENT_EVERY_1MINUTE", "LINEAR_10PERCENT_EVERY_2MINUTES",
      "LINEAR_10PERCENT_EVERY_3MINUTES", "LINEAR_10PERCENT_EVERY_10MINUTES",
      "CANARY_10PERCENT_5MINUTES", "CANARY_10PERCENT_10MINUTES",
      "CANARY_10PERCENT_15MINUTES", "CANARY_10PERCENT_30MINUTES",
      "ALL_AT_ONCE" }

\* A preference string that is not a key of the configs table: the
\* configuration is read from JSON and cast, so any string can arrive.
UnknownPreferences == { "LINEAR_25PERCENT_EVERY_1MINUTE" }

\* Error-rate thresholds, in percent (config.errorRateThreshold * 100).
ErrorRateThresholds == { 5 }

\* Counts a one-minute metric period can report.
InvocationCounts == { 0, 10 }
ErrorCounts == { 0, 1 }

FunctionConfigs ==
    [ provisionedConcurrency : { 0, 2 },
      codeDeployEnabled      : BOOLEAN,
      deploymentPreference   : KnownPreferences \cup UnknownPreferences,
      alarmsEnabled          : BOOLEAN,
      errorRateThreshold     : ErrorRateThresholds,
      evaluationPeriods      : 1..MaxEvaluationPeriods ]

Max(a, b) == IF a >= b THEN a ELSE b

\* --------------------------------------------------------- getDeploymentConfig
\* Variant: an unlisted preference is refused instead of defaulted.
GetDeploymentConfig_Reject(preference) ==
    IF preference \in KnownPreferences
    THEN preference
    ELSE "NONE"

GetDeploymentConfig(preference) ==
    IF preference \in KnownPreferences
    THEN preference
    ELSE "LINEAR_10PERCENT_EVERY_1MINUTE"

\* Traffic-routing parameters carried by each predefined configuration name.
ConfigType(config) ==
    CASE config \in { "LINEAR_10PERCENT_EVERY_1MINUTE", "LINEAR_10PERCENT_EVERY_2MINUTES",
                      "LINEAR_10PERCENT_EVERY_3MINUTES", "LINEAR_10PERCENT_EVERY_10MINUTES" }
            -> "LINEAR"
      [] config \in { "CANARY_10PERCENT_5MINUTES", "CANARY_10PERCENT_10MINUTES",
                      "CANARY_10PERCENT_15MINUTES", "CANARY_10PERCENT_30MINUTES" }
            -> "CANARY"
      [] OTHER -> "ALL_AT_ONCE"

ConfigPercentage(config) ==
    IF ConfigType(config) = "ALL_AT_ONCE" THEN 100 ELSE 10

ConfigInterval(config) ==
    CASE config = "LINEAR_10PERCENT_EVERY_1MINUTE"   -> 1
      [] config = "LINEAR_10PERCENT_EVERY_2MINUTES"  -> 2
      [] config = "LINEAR_10PERCENT_EVERY_3MINUTES"  -> 3
      [] config = "LINEAR_10PERCENT_EVERY_10MINUTES" -> 10
      [] config = "CANARY_10PERCENT_5MINUTES"        -> 5
      [] config = "CANARY_10PERCENT_10MINUTES"       -> 10
      [] config = "CANARY_10PERCENT_15MINUTES"       -> 15
      [] config = "CANARY_10PERCENT_30MINUTES"       -> 30
      [] OTHER -> 0

\* --------------------------------------------------------------- step plans
Step(percentage, interval) == [percentage |-> percentage, interval |-> interval]

\* Variant: the schedule stops one step short of 100.
LinearSteps_StopsShort(p, interval) ==
    LET n == (100 + p - 1) \div p
    IN  [k \in 1..(n - 1) |-> Step(k * p, interval)]

\* p, 2p, 3p, ... closed at 100; reaching 100 completes the deployment, so the
\* last step carries no interval.
LinearSteps(p, interval) ==
    LET n == (100 + p - 1) \div p
    IN  [k \in 1..n |-> IF k * p >= 100 THEN Step(100, 0) ELSE Step(k * p, interval)]

\* Variant: the canary step is never followed by the full shift.
CanarySteps_NoFinal(p, bake) == << Step(p, bake) >>

CanarySteps(p, bake) == << Step(p, bake), Step(100, 0) >>

AllAtOnceSteps == << Step(100, 0) >>

Plan(config) ==
    CASE ConfigType(config) = "LINEAR" -> LinearSteps(ConfigPercentage(config), ConfigInterval(config))
      [] ConfigType(config) = "CANARY" -> CanarySteps(ConfigPercentage(config), ConfigInterval(config))
      [] OTHER -> AllAtOnceSteps

\* ------------------------------------------------------------- constructor
AliasCreated(cfg) == cfg.provisionedConcurrency > 0

\* Variant: the deployment group does not depend on the alias.
DeploymentGroupCreated_NoAlias(cfg) == cfg.codeDeployEnabled

DeploymentGroupCreated(cfg) == cfg.codeDeployEnabled /\ AliasCreated(cfg)

ErrorAlarmCreated(cfg) == DeploymentGroupCreated(cfg) /\ cfg.alarmsEnabled

\* ------------------------------------------------------------- error alarm
\* Variant: GREATER_THAN_OR_EQUAL_TO_THRESHOLD.
Evaluate_AtLeast(invocations, errors, threshold) ==
    LET denominator == Max(errors, invocations)
    IN  IF denominator = 0 THEN "INSUFFICIENT_DATA"
        ELSE IF errors * 100 >= threshold * denominator THEN "BREACH"
        ELSE "OK"

\* (errors / MAX([errors, invocations])) * 100 compared with threshold * 100;
\* a period whose expression has no value is missing data.
Evaluate(invocations, errors, threshold) ==
    LET denominator == Max(errors, invocations)
    IN  IF denominator = 0 THEN "INSUFFICIENT_DATA"
        ELSE IF errors * 100 > threshold * denominator THEN "BREACH"
        ELSE "OK"

\* Variant: missing data is treated as breaching.
Breaching_MissingBreaches(verdict) == verdict # "OK"

\* Missing data is treated as not breaching.
Breaching(verdict) == verdict = "BREACH"

\* Variant: evaluationPeriods breaching periods anywhere in the history,
\* consecutive or not, put the alarm in ALARM.
InAlarm_Cumulative(h, evaluationPeriods) ==
    Cardinality({ i \in 1..Len(h) : h[i].verdict = "BREACH" }) >= evaluationPeriods

\* The alarm is in ALARM when each of the evaluationPeriods most recent
\* periods is breaching.
InAlarm(h, evaluationPeriods) ==
    /\ Len(h) >= evaluationPeriods
    /\ \A i \in (Len(h) - evaluationPeriods + 1)..Len(h) : Breaching(h[i].verdict)

\* autoRollback.deploymentInAlarm
DeploymentInAlarmRollback(cfg) == cfg.alarmsEnabled

\* autoRollback.stoppedDeployment
StoppedDeploymentRollback == TRUE

\* autoRollback.failedDeployment
FailedDeploymentRollback == TRUE

Record(h, entry) ==
    LET full == Append(h, entry)
    IN  IF Len(full) > MaxHistory THEN Tail(full) ELSE full

StableOnly == [stable |-> 100, candidate |-> 0]

\* Variant: the stable weight is not reduced.
SplitFor_Unbalanced(percentage) == [stable |-> 100, candidate |-> percentage]

SplitFor(percentage) == [stable |-> 100 - percentage, candidate |-> percentage]

Terminal == { "SUCCEEDED", "ROLLED_BACK", "FAILED" }

\* ------------------------------------------------------------- auto-scaling
\* Largest maxCapacity a configuration is given.
MaxCapacityLimit == 10

NoSample == -1

\* Observed utilization of the provisioned instances, in percent.
UtilizationSamples == { 0, 35, 70, 95 }

AutoScalingDisabled ==
    [enabled |-> FALSE, minCapacity |-> 1, maxCapacity |-> 1, utilizationTarget |-> 70]

\* A scalable target is only accepted with minCapacity <= maxCapacity.
AutoScalingConfigs ==
    { c \in [ enabled : BOOLEAN,
              minCapacity : 1..3,
              maxCapacity : 1..MaxCapacityLimit,
              utilizationTarget : { 70 } ] : c.minCapacity <= c.maxCapacity }

\* if (functionConfig.autoScaling.enabled && provisionedCount > 0 && this.alias)
ScalableTargetCreated(cfg, scaling) ==
    scaling.enabled /\ cfg.provisionedConcurrency > 0 /\ AliasCreated(cfg)

\* Variant: only minCapacity is enforced.
Clamp_NoCeiling(v, lo, hi) == IF v < lo THEN lo ELSE v

\* addAutoScaling({ minCapacity, maxCapacity }): capacity stays in the range.
Clamp(v, lo, hi) == IF v < lo THEN lo ELSE IF v > hi THEN hi ELSE v

\* scaleOnUtilization({ utilizationTarget }): the capacity that would bring
\* the observed utilization to the target, rounded up.
TargetTracking(current, utilization, target) ==
    (current * utilization + target - 1) \div target

\* ---------------------------------------------------------------- phrase API
\* Number of requests of a run.
MaxRequests == 3

\* if (body.phrase.length > 100)
MaxPhraseLength == 100

\* Counter ID (fixed ID for counter record)
COUNTER_ID == 0

\* Number of requests of a run that may use any method and path.
MaxRouteRequests == 2

\* event.httpMethod, event.path and the last segment of the path.  The path
\* "/phrases/" stands for any path that starts with it; id is its last
\* segment, a sequence of characters.
Event(httpMethod, path, id) == [httpMethod |-> httpMethod, path |-> path, id |-> id]

NoEvent == Event("NONE", "NONE", << >>)

\* The requests the phrase and counter claims are about.
PhraseEvents == { Event("POST", "/phrases", << >>), Event("GET", "/counter", << >>) }

\* Last path segments of GET /phrases/{id}.
IdSegments ==
    { << >>, <<"a">>, <<"0">>, <<"-", "1">>, <<"1">>, <<"2">>, <<"3">>, <<"1", "a">> }

Events ==
    PhraseEvents
        \cup { Event("GET", "/phrases", << >>) }
        \cup { Event("GET", "/phrases/", id) : id \in IdSegments }
        \cup { Event("OPTIONS", "/phrases", << >>), Event("OPTIONS", "/health", << >>) }
        \cup { Event("DELETE", "/phrases", << >>), Event("GET", "/health", << >>),
               Event("POST", "/counter", << >>), Event("POST", "/phrases/", <<"1">>) }

\* The handler's routing, in the order of its tests.
Route(event) ==
    IF event.httpMethod = "OPTIONS" THEN "OPTIONS"
    ELSE IF event.httpMethod = "POST" /\ event.path = "/phrases" THEN "POST /phrases"
    ELSE IF event.httpMethod = "GET" /\ event.path = "/phrases" THEN "GET /phrases"
    ELSE IF event.httpMethod = "GET" /\ event.path = "/phrases/" THEN "GET /phrases/{id}"
    ELSE IF event.httpMethod = "GET" /\ event.path = "/counter" THEN "GET /counter"
    ELSE "NOT FOUND"

Digits == { "0", "1", "2", "3" }

DigitValue == ("0" :> 0) @@ ("1" :> 1) @@ ("2" :> 2) @@ ("3" :> 3)

RECURSIVE LeadingDigits(_)
LeadingDigits(chars) ==
    IF chars = << >> THEN << >>
    ELSE IF Head(chars) \in Digits THEN <<Head(chars)>> \o LeadingDigits(Tail(chars))
    ELSE << >>

RECURSIVE DecimalValue(_)
DecimalValue(digits) ==
    IF digits = << >> THEN 0
    ELSE DecimalValue(SubSeq(digits, 1, Len(digits) - 1)) * 10 + DigitValue[digits[Len(digits)]]

\* parseInt(id, 10): an optional sign and the longest run of digits that
\* follows; what comes after the digits is ignored, and NaN without a digit.
ParseInt(chars) ==
    LET negative == chars # << >> /\ Head(chars) = "-"
        digits == LeadingDigits(IF negative THEN Tail(chars) ELSE chars)
    IN  IF digits = << >> THEN [isNaN |-> TRUE, value |-> 0]
        ELSE [isNaN |-> FALSE,
              value |-> IF negative THEN 0 - DecimalValue(digits) ELSE DecimalValue(digits)]

\* Values of body.phrase: absent, a number, or a string of some length.
NoPhrase == [type |-> "undefined", length |-> 0]

\* Stands for a body whose text is not JSON: JSON.parse yields no object.
Malformed == [type |-> "malformed", length |-> 0]
NotAString == [type |-> "number", length |-> 0]
Str(n) == [type |-> "string", length |-> n]

PhraseValues ==
    { NoPhrase, NotAString, Str(0), Str(1), Str(MaxPhraseLength), Str(MaxPhraseLength + 1) }

\* event.body: null, or a JSON object with the phrase it carries.
NoBody == [present |-> FALSE, phrase |-> NoPhrase]
Bodies == { NoBody } \cup { [present |-> TRUE, phrase |-> v] : v \in PhraseValues }

\* Bodies of the requests that may use any method and path.
RouteBodies ==
    { NoBody, [present |-> TRUE, phrase |-> Malformed], [present |-> TRUE, phrase |-> Str(1)] }

NotIssued ==
    [event |-> NoEvent, route |-> "NONE", body |-> NoBody, pc |-> "none", newId |-> 0,
     status |-> 0, data |-> 0, items |-> << >>, error |-> ""]

EmptyTable == << >>

\* A table that already holds one phrase and its counter.
SeededTable ==
    (COUNTER_ID :> [id |-> COUNTER_ID, counter |-> 1])
        @@ (1 :> [id |-> 1, phrase |-> Str(1)])

InitialTables == { EmptyTable, SeededTable }

\* A table whose id 2 is missing: its createPhrase failed after the increment.
GappedTable ==
    (COUNTER_ID :> [id |-> COUNTER_ID, counter |-> 3])
        @@ (1 :> [id |-> 1, phrase |-> Str(1)])
        @@ (3 :> [id |-> 3, phrase |-> Str(MaxPhraseLength)])

RouteTables == { EmptyTable, SeededTable, GappedTable }

\* !body.phrase || typeof body.phrase !== 'string'
PhraseRequired(phrase) ==
    \/ phrase.type = "undefined"
    \/ phrase.type = "string" /\ phrase.length = 0
    \/ phrase.type # "string"

\* Variant: the limit is exclusive.
PhraseTooLong_Exclusive(phrase) == phrase.length >= MaxPhraseLength

\* body.phrase.length > 100
PhraseTooLong(phrase) == phrase.length > MaxPhraseLength

\* getCounter: result.Item?.counter || 0
GetCounter(t) == IF COUNTER_ID \in DOMAIN t THEN t[COUNTER_ID].counter ELSE 0

\* Variant: SET #counter = :inc instead of ADD.
AddCounter_Set(t) ==
    (COUNTER_ID :> [id |-> COUNTER_ID, counter |-> 1]) @@ t

\* UpdateCommand ADD #counter :inc on the counter record; a missing record
\* counts as 0.
AddCounter(t) ==
    (COUNTER_ID :> [id |-> COUNTER_ID, counter |-> GetCounter(t) + 1]) @@ t

\* Variant: ReturnValues UPDATED_OLD.
UpdatedNew_Old(t) == GetCounter(t) - 1

\* result.Attributes?.counter || 1
UpdatedNew(t) == IF GetCounter(t) = 0 THEN 1 ELSE GetCounter(t)

\* PutCommand: the item replaces whatever the table holds under its id.
PutItem(t, item) == (item.id :> item) @@ t

\* Ids of the phrases the table holds (the scan's id > :zero).
PhraseIds(t) == { id \in DOMAIN t : id > 0 }

\* Variant: the scan has no filter.
ScanIds_NoFilter(t) == DOMAIN t

\* ScanCommand with FilterExpression 'id > :zero'.
ScanIds(t) == { id \in DOMAIN t : id > 0 }

\* The items a scan may return: the filtered items in any order.
Scans(t) ==
    LET ids == ScanIds(t)
        n == Cardinality(ids)
    IN  { [i \in 1..n |-> t[order[i]]] :
              order \in { f \in [1..n -> ids] : \A i, j \in 1..n : (i # j) => (f[i] # f[j]) } }

RECURSIVE InsertById(_, _)
InsertById(item, sorted) ==
    IF sorted = << >> THEN <<item>>
    ELSE IF item.id - Head(sorted).id < 0 THEN <<item>> \o sorted
    ELSE <<Head(sorted)>> \o InsertById(item, Tail(sorted))

\* phrases.sort((a, b) => a.id - b.id)
RECURSIVE SortById(_)
SortById(items) ==
    IF items = << >> THEN << >>
    ELSE InsertById(Head(items), SortById(Tail(items)))

\* --------------------------------------------------------------------- Init
DeploymentInit ==
    /\ functionConfig \in FunctionConfigs
    /\ alias = AliasCreated(functionConfig)
    /\ deploymentGroup = DeploymentGroupCreated(functionConfig)
    /\ errorAlarm = ErrorAlarmCreated(functionConfig)
    /\ deploymentConfig = IF DeploymentGroupCreated(functionConfig)
                          THEN GetDeploymentConfig(functionConfig.deploymentPreference)
                          ELSE "NONE"
    /\ state = "IDLE"
    /\ steps = << >>
    /\ currentStepIndex = 0
    /\ elapsed = 0
    /\ split = StableOnly
    /\ history = << >>
    /\ rollbackSignals = 0
    /\ rollbackReason = "NONE"
    /\ stableVersion = 1
    /\ candidateVersion = 0
    /\ lastPeriod = [invocations |-> 0, errors |-> 0]

\* The scalable target and the provisioned instances after construction.
ScaleInitWith(configs) ==
    /\ autoScaling \in configs
    /\ scalableTarget = ScalableTargetCreated(functionConfig, autoScaling)
    /\ warmPool = [current |-> functionConfig.provisionedConcurrency, utilization |-> NoSample]

\* The table before any request of the run, and no request issued yet.
ApiInitWith(tables) ==
    /\ table \in tables
    /\ initialCounter = GetCounter(table)
    /\ requests = [r \in 1..MaxRequests |-> NotIssued]

Init ==
    /\ DeploymentInit
    /\ ScaleInitWith({ AutoScalingDisabled })
    /\ ApiInitWith({ EmptyTable })

\* ------------------------------------------------------------------ actions
\* A new version is published and a deployment of the group starts.
StartDeployment ==
    /\ deploymentGroup
    /\ state = "IDLE"
    /\ state' = "SHIFTING"
    /\ steps' = Plan(deploymentConfig)
    /\ currentStepIndex' = 0
    /\ elapsed' = 0
    /\ candidateVersion' = stableVersion + 1
    /\ UNCHANGED <<constructVars, split, history, rollbackSignals, rollbackReason, stableVersion,
                   lastPeriod, scaleVars, apiVars>>

\* Variant: completion leaves the alias on the old version.
ApplyStep_NoPromote ==
    /\ state = "SHIFTING"
    /\ currentStepIndex < Len(steps)
    /\ LET step == steps[currentStepIndex + 1]
       IN  /\ currentStepIndex' = currentStepIndex + 1
           /\ split' = SplitFor(step.percentage)
           /\ elapsed' = 0
           /\ state' = IF step.interval = 0 THEN "SUCCEEDED" ELSE "MONITORING"
    /\ UNCHANGED <<constructVars, steps, history, rollbackSignals, rollbackReason,
                   stableVersion, candidateVersion, lastPeriod, scaleVars, apiVars>>

\* The next step of the plan is applied to the alias; the step that reaches
\* 100% completes the deployment and the alias points at the new version.
ApplyStep ==
    /\ state = "SHIFTING"
    /\ currentStepIndex < Len(steps)
    /\ LET step == steps[currentStepIndex + 1]
       IN  /\ currentStepIndex' = currentStepIndex + 1
           /\ split' = SplitFor(step.percentage)
           /\ elapsed' = 0
           /\ IF step.interval = 0
              THEN /\ state' = "SUCCEEDED"
                   /\ stableVersion' = candidateVersion
              ELSE /\ state' = "MONITORING"
                   /\ UNCHANGED stableVersion
    /\ UNCHANGED <<constructVars, steps, history, rollbackSignals, rollbackReason, candidateVersion,
                   lastPeriod, scaleVars, apiVars>>

\* Variant: the deployment is marked rolled back but the split is left as is.
Rollback_KeepSplit(reason) ==
    /\ UNCHANGED split
    /\ state' = "ROLLED_BACK"
    /\ rollbackReason' = reason

Rollback(reason) ==
    /\ split' = StableOnly
    /\ state' = "ROLLED_BACK"
    /\ rollbackReason' = reason

\* Variant: a breaching period that has not yet put the alarm in ALARM holds
\* the current step instead of letting the timer move on.
Window_HoldOnBreach(invocations, errors) ==
    /\ state = "MONITORING"
    /\ LET verdict == Evaluate(invocations, errors, functionConfig.errorRateThreshold)
           h == IF errorAlarm
                THEN Record(history, [percentage |-> split.candidate, verdict |-> verdict])
                ELSE history
       IN  /\ history' = h
           /\ IF errorAlarm /\ DeploymentInAlarmRollback(functionConfig)
                 /\ InAlarm(h, functionConfig.evaluationPeriods)
              THEN /\ Rollback("ALARM")
                   /\ rollbackSignals' = rollbackSignals + 1
                   /\ UNCHANGED elapsed
              ELSE /\ elapsed' = IF verdict = "BREACH" THEN elapsed ELSE elapsed + 1
                   /\ state' = IF verdict # "BREACH" /\ elapsed + 1 >= steps[currentStepIndex].interval
                               THEN "SHIFTING" ELSE "MONITORING"
                   /\ UNCHANGED <<split, rollbackSignals, rollbackReason>>
    /\ UNCHANGED <<constructVars, steps, currentStepIndex, stableVersion, candidateVersion,
                   scaleVars, apiVars>>

\* Variant: every deployment group evaluates the periods and rolls back on
\* them, whether or not alarms are enabled.
Window_AlwaysEvaluates(invocations, errors) ==
    /\ state = "MONITORING"
    /\ LET verdict == Evaluate(invocations, errors, functionConfig.errorRateThreshold)
           h == Record(history, [percentage |-> split.candidate, verdict |-> verdict])
       IN  /\ history' = h
           /\ IF InAlarm(h, functionConfig.evaluationPeriods)
              THEN /\ Rollback("ALARM")
                   /\ rollbackSignals' = rollbackSignals + 1
                   /\ UNCHANGED elapsed
              ELSE /\ elapsed' = elapsed + 1
                   /\ state' = IF elapsed + 1 >= steps[currentStepIndex].interval
                               THEN "SHIFTING" ELSE "MONITORING"
                   /\ UNCHANGED <<split, rollbackSignals, rollbackReason>>
    /\ UNCHANGED <<constructVars, steps, currentStepIndex, stableVersion, candidateVersion,
                   scaleVars, apiVars>>

\* Variant: a breaching period that does not put the alarm in ALARM restarts
\* the interval of the current step.
Window_BreachRestartsInterval(invocations, errors) ==
    /\ state = "MONITORING"
    /\ LET verdict == Evaluate(invocations, errors, functionConfig.errorRateThreshold)
           h == IF errorAlarm
                THEN Record(history, [percentage |-> split.candidate, verdict |-> verdict])
                ELSE history
       IN  /\ history' = h
           /\ IF errorAlarm /\ DeploymentInAlarmRollback(functionConfig)
                 /\ InAlarm(h, functionConfig.evaluationPeriods)
              THEN /\ Rollback("ALARM")
                   /\ rollbackSignals' = rollbackSignals + 1
                   /\ UNCHANGED elapsed
              ELSE IF errorAlarm /\ Breaching(verdict)
              THEN /\ elapsed' = 0
                   /\ UNCHANGED <<state, split, rollbackSignals, rollbackReason>>
              ELSE /\ elapsed' = elapsed + 1
                   /\ state' = IF elapsed + 1 >= steps[currentStepIndex].interval
                               THEN "SHIFTING" ELSE "MONITORING"
                   /\ UNCHANGED <<split, rollbackSignals, rollbackReason>>
    /\ UNCHANGED <<constructVars, steps, currentStepIndex, stableVersion, candidateVersion,
                   scaleVars, apiVars>>

\* One alarm period elapses while a step is being monitored.  Periods are
\* evaluated, and recorded, only where the error alarm exists.
Window(invocations, errors) ==
    /\ state = "MONITORING"
    /\ LET verdict == Evaluate(invocations, errors, functionConfig.errorRateThreshold)
           h == IF errorAlarm
                THEN Record(history, [percentage |-> split.candidate, verdict |-> verdict])
                ELSE history
       IN  /\ history' = h
           /\ IF errorAlarm /\ DeploymentInAlarmRollback(functionConfig)
                 /\ InAlarm(h, functionConfig.evaluationPeriods)
              THEN /\ Rollback("ALARM")
                   /\ rollbackSignals' = rollbackSignals + 1
                   /\ UNCHANGED elapsed
              ELSE /\ elapsed' = elapsed + 1
                   /\ state' = IF elapsed + 1 >= steps[currentStepIndex].interval
                               THEN "SHIFTING" ELSE "MONITORING"
                   /\ UNCHANGED <<split, rollbackSignals, rollbackReason>>
    /\ UNCHANGED <<constructVars, steps, currentStepIndex, stableVersion, candidateVersion,
                   scaleVars, apiVars>>

\* Variant: a stop waits for the monitoring interval to end.
Cancel_OnlyWhenShifting ==
    /\ state = "SHIFTING"
    /\ Rollback("STOPPED")
    /\ UNCHANGED <<constructVars, steps, currentStepIndex, elapsed, history,
                   rollbackSignals, stableVersion, candidateVersion, lastPeriod, scaleVars, apiVars>>

\* Variant: a stop is also taken after the deployment has ended.
Cancel_Anytime ==
    /\ state # "IDLE"
    /\ Rollback("STOPPED")
    /\ UNCHANGED <<constructVars, steps, currentStepIndex, elapsed, history,
                   rollbackSignals, stableVersion, candidateVersion, lastPeriod, scaleVars, apiVars>>

\* The running deployment is stopped.
Cancel ==
    /\ state \in { "SHIFTING", "MONITORING" }
    /\ IF StoppedDeploymentRollback
       THEN Rollback("STOPPED")
       ELSE /\ state' = "FAILED"
            /\ UNCHANGED <<split, rollbackReason>>
    /\ UNCHANGED <<constructVars, steps, currentStepIndex, elapsed, history,
                   rollbackSignals, stableVersion, candidateVersion, lastPeriod, scaleVars, apiVars>>

\* Variant: a failed deployment keeps the split it had reached.
StepFails_NoRollback ==
    /\ state = "SHIFTING"
    /\ currentStepIndex < Len(steps)
    /\ state' = "FAILED"
    /\ rollbackReason' = "FAILED"
    /\ UNCHANGED split
    /\ UNCHANGED <<constructVars, steps, currentStepIndex, elapsed, history,
                   rollbackSignals, stableVersion, candidateVersion, lastPeriod, scaleVars, apiVars>>

\* Applying the next step fails: the deployment fails and, failed deployments
\* being rolled back automatically, the alias returns to the stable version.
StepFails ==
    /\ state = "SHIFTING"
    /\ currentStepIndex < Len(steps)
    /\ state' = "FAILED"
    /\ rollbackReason' = "FAILED"
    /\ split' = IF FailedDeploymentRollback THEN StableOnly ELSE split
    /\ UNCHANGED <<constructVars, steps, currentStepIndex, elapsed, history,
                   rollbackSignals, stableVersion, candidateVersion, lastPeriod, scaleVars, apiVars>>

\* ---------------------------------------------------------- scaling actions
\* Variant: a scaling evaluation restarts the interval of the running step.
Adjust_RestartsInterval(utilization) ==
    /\ scalableTarget
    /\ warmPool' = [current |-> Clamp(TargetTracking(warmPool.current, utilization,
                                                     autoScaling.utilizationTarget),
                                      autoScaling.minCapacity, autoScaling.maxCapacity),
                    utilization |-> utilization]
    /\ elapsed' = 0
    /\ UNCHANGED <<constructVars, state, steps, currentStepIndex, split, history,
                   rollbackSignals, rollbackReason, stableVersion, candidateVersion,
                   lastPeriod, autoScaling, scalableTarget, apiVars>>

\* One scaling evaluation with the utilization it observes.
Adjust(utilization) ==
    /\ scalableTarget
    /\ warmPool' = [current |-> Clamp(TargetTracking(warmPool.current, utilization,
                                                     autoScaling.utilizationTarget),
                                      autoScaling.minCapacity, autoScaling.maxCapacity),
                    utilization |-> utilization]
    /\ UNCHANGED <<deploymentVars, autoScaling, scalableTarget, apiVars>>

Tick == \E utilization \in UtilizationSamples : Adjust(utilization)

\* An alarm period of the running deployment, with the counts it reports.
Period ==
    \E invocations \in InvocationCounts, errors \in ErrorCounts :
        /\ Window(invocations, errors)
        /\ UNCHANGED lastPeriod

Next ==
    \/ StartDeployment
    \/ ApplyStep
    \/ Period
    \/ Cancel
    \/ StepFails

Spec == Init /\ [][Next]_vars

\* Timer-driven progress: alarm periods keep elapsing and due steps are applied.
FairSpec ==
    /\ Spec
    /\ WF_vars(ApplyStep)
    /\ WF_vars(Period)

\* ------------------------------------------------------- scaling on its own
ScaleInit ==
    /\ DeploymentInit
    /\ ~functionConfig.codeDeployEnabled
    /\ ~functionConfig.alarmsEnabled
    /\ functionConfig.deploymentPreference = "ALL_AT_ONCE"
    /\ functionConfig.evaluationPeriods = 1
    /\ ScaleInitWith(AutoScalingConfigs)
    /\ ApiInitWith({ EmptyTable })

ScaleNext == Tick

ScaleSpec == ScaleInit /\ [][ScaleNext]_vars

\* ------------------------------------------- scaling during a deployment
\* Scalable targets of a small range, so that a deployment and the scaling
\* of its alias can be followed together.
PoolConfigs ==
    { c \in AutoScalingConfigs : c.enabled /\ c.minCapacity = 1 /\ c.maxCapacity = 4 }

PoolInit ==
    /\ DeploymentInit
    /\ functionConfig.provisionedConcurrency = 2
    /\ functionConfig.codeDeployEnabled
    /\ functionConfig.deploymentPreference = "CANARY_10PERCENT_5MINUTES"
    /\ functionConfig.evaluationPeriods = 2
    /\ ScaleInitWith(PoolConfigs)
    /\ ApiInitWith({ EmptyTable })

PoolNext ==
    \/ StartDeployment
    \/ ApplyStep
    \/ Period
    \/ Cancel
    \/ StepFails
    \/ Tick

PoolSpec == PoolInit /\ [][PoolNext]_vars

\* --------------------------------------------------------------- API actions
Respond(r, status, data) ==
    [requests EXCEPT ![r].pc = "done", ![r].status = status, ![r].data = data]

\* An error response: createResponse(status, { success: false, error }).
Fail(r, status, error) ==
    [requests EXCEPT ![r].pc = "done", ![r].status = status, ![r].error = error]

\* A request arrives at the handler and is routed; requests are numbered in
\* order of arrival.
IssueFrom(r, events, bodies) ==
    /\ requests[r].pc = "none"
    /\ IF r = 1 THEN TRUE ELSE requests[r - 1].pc # "none"
    /\ \E event \in events, body \in bodies :
          /\ (event.httpMethod # "POST") => (body = NoBody)
          /\ requests' = [requests EXCEPT ![r].event = event, ![r].route = Route(event),
                                          ![r].body = body, ![r].pc = "received"]
    /\ UNCHANGED <<deploymentVars, scaleVars, table, initialCounter>>

Issue(r) == IssueFrom(r, PhraseEvents, Bodies)

\* parseBody: throws when the body is missing or is not JSON.
ParseBodyThrows(body) == ~body.present \/ body.phrase = Malformed

\* Variant: a body that cannot be parsed is answered as a missing phrase.
HandleAddPhrase_BadBodyIs400(r) ==
    /\ requests[r].pc = "received"
    /\ requests[r].route = "POST /phrases"
    /\ LET body == requests[r].body
       IN  requests' =
               IF ParseBodyThrows(body) \/ PhraseRequired(body.phrase)
                    THEN Fail(r, 400, "phrase is required (string)")
               ELSE IF PhraseTooLong(body.phrase) THEN Fail(r, 400, "Phrase too long")
               ELSE [requests EXCEPT ![r].pc = "incrementCounter"]
    /\ UNCHANGED <<deploymentVars, scaleVars, table, initialCounter>>

\* handleAddPhrase up to the call of incrementCounter: parseBody throws on a
\* missing body (answered 500 by the handler's catch), an invalid phrase is
\* answered 400.
HandleAddPhrase(r) ==
    /\ requests[r].pc = "received"
    /\ requests[r].route = "POST /phrases"
    /\ LET body == requests[r].body
       IN  requests' =
               IF ParseBodyThrows(body) THEN Fail(r, 500, "Internal server error")
               ELSE IF PhraseRequired(body.phrase)
                    THEN Fail(r, 400, "phrase is required (string)")
               ELSE IF PhraseTooLong(body.phrase) THEN Fail(r, 400, "Phrase too long")
               ELSE [requests EXCEPT ![r].pc = "incrementCounter"]
    /\ UNCHANGED <<deploymentVars, scaleVars, table, initialCounter>>

\* const newId = await incrementCounter()
IncrementCounter(r) ==
    /\ requests[r].pc = "incrementCounter"
    /\ table' = AddCounter(table)
    /\ requests' = [requests EXCEPT ![r].pc = "createPhrase",
                                    ![r].newId = UpdatedNew(table')]
    /\ UNCHANGED <<deploymentVars, scaleVars, initialCounter>>

\* await createPhrase({ id: newId, phrase: body.phrase, ... }) and the 201.
CreatePhrase(r) ==
    /\ requests[r].pc = "createPhrase"
    /\ table' = PutItem(table, [id |-> requests[r].newId, phrase |-> requests[r].body.phrase])
    /\ requests' = Respond(r, 201, requests[r].newId)
    /\ UNCHANGED <<deploymentVars, scaleVars, initialCounter>>

\* A command sent to the table is rejected: the exception reaches the
\* handler's catch, which answers 500.
CommandFails(r) ==
    /\ requests[r].pc \in { "incrementCounter", "createPhrase" }
    /\ requests' = Fail(r, 500, "Internal server error")
    /\ UNCHANGED <<deploymentVars, scaleVars, table, initialCounter>>

\* handleGetCounter
HandleGetCounter(r) ==
    /\ requests[r].pc = "received"
    /\ requests[r].route = "GET /counter"
    /\ requests' = Respond(r, 200, GetCounter(table))
    /\ UNCHANGED <<deploymentVars, scaleVars, table, initialCounter>>

\* handleListPhrases
HandleListPhrases(r) ==
    /\ requests[r].pc = "received"
    /\ requests[r].route = "GET /phrases"
    /\ \E phrases \in Scans(table) :
          LET sortedPhrases == SortById(phrases)
          IN  requests' = [requests EXCEPT ![r].pc = "done", ![r].status = 200,
                                          ![r].data = Len(sortedPhrases),
                                          ![r].items = sortedPhrases]
    /\ UNCHANGED <<deploymentVars, scaleVars, table, initialCounter>>

\* handleGetPhrase
HandleGetPhrase(r) ==
    /\ requests[r].pc = "received"
    /\ requests[r].route = "GET /phrases/{id}"
    /\ LET id == requests[r].event.id
           numericId == ParseInt(id)
       IN  requests' =
               IF id = << >> THEN Fail(r, 400, "ID is required")
               ELSE IF numericId.isNaN \/ numericId.value <= 0
                    THEN Fail(r, 400, "ID must be a positive number")
               ELSE IF numericId.value \notin DOMAIN table
                    THEN Fail(r, 404, "Phrase not found")
               ELSE [requests EXCEPT ![r].pc = "done", ![r].status = 200,
                                     ![r].data = numericId.value,
                                     ![r].items = <<table[numericId.value]>>]
    /\ UNCHANGED <<deploymentVars, scaleVars, table, initialCounter>>

\* if (event.httpMethod === 'OPTIONS') return createResponse(200, ...)
HandleOptions(r) ==
    /\ requests[r].pc = "received"
    /\ requests[r].route = "OPTIONS"
    /\ requests' = Respond(r, 200, 0)
    /\ UNCHANGED <<deploymentVars, scaleVars, table, initialCounter>>

\* No route matches: createResponse(404, ...).
NotFound(r) ==
    /\ requests[r].pc = "received"
    /\ requests[r].route = "NOT FOUND"
    /\ requests' = Fail(r, 404, "Endpoint not found")
    /\ UNCHANGED <<deploymentVars, scaleVars, table, initialCounter>>

\* A read of the table is rejected: the handler's catch answers 500.
ReadFails(r) ==
    /\ requests[r].pc = "received"
    /\ requests[r].route \in { "GET /phrases", "GET /counter" }
       \/ /\ requests[r].route = "GET /phrases/{id}"
          /\ ~ParseInt(requests[r].event.id).isNaN
          /\ ParseInt(requests[r].event.id).value > 0
    /\ requests' = Fail(r, 500, "Internal server error")
    /\ UNCHANGED <<deploymentVars, scaleVars, table, initialCounter>>

ApiInit ==
    /\ DeploymentInit
    /\ ~functionConfig.codeDeployEnabled
    /\ ~functionConfig.alarmsEnabled
    /\ functionConfig.provisionedConcurrency = 0
    /\ functionConfig.deploymentPreference = "ALL_AT_ONCE"
    /\ functionConfig.evaluationPeriods = 1
    /\ ScaleInitWith({ AutoScalingDisabled })
    /\ ApiInitWith(InitialTables)

ApiNext ==
    \E r \in 1..MaxRequests :
        \/ Issue(r)
        \/ HandleAddPhrase(r)
        \/ IncrementCounter(r)
        \/ CreatePhrase(r)
        \/ CommandFails(r)
        \/ HandleGetCounter(r)

ApiSpec == ApiInit /\ [][ApiNext]_vars

\* ------------------------------------------------- every method and path
IssueAny(r) ==
    /\ r <= MaxRouteRequests
    /\ IssueFrom(r, Events, RouteBodies)

RouteInit ==
    /\ DeploymentInit
    /\ ~functionConfig.codeDeployEnabled
    /\ ~functionConfig.alarmsEnabled
    /\ functionConfig.provisionedConcurrency = 0
    /\ functionConfig.deploymentPreference = "ALL_AT_ONCE"
    /\ functionConfig.evaluationPeriods = 1
    /\ ScaleInitWith({ AutoScalingDisabled })
    /\ ApiInitWith(RouteTables)

RouteNext ==
    \E r \in 1..MaxRequests :
        \/ IssueAny(r)
        \/ HandleOptions(r)
        \/ HandleAddPhrase(r)
        \/ IncrementCounter(r)
        \/ CreatePhrase(r)
        \/ CommandFails(r)
        \/ HandleListPhrases(r)
        \/ HandleGetPhrase(r)
        \/ HandleGetCounter(r)
        \/ NotFound(r)
        \/ ReadFails(r)

RouteSpec == RouteInit /\ [][RouteNext]_vars

\* ------------------------------------------------------- metric periods
\* Counts of a period, wide enough for a rate equal to the threshold.
PeriodInvocationCounts == { 0, 10, 20 }
PeriodErrorCounts == { 0, 1 }

\* An alarm period whose reported counts are kept for inspection.
ObservedPeriod ==
    \E invocations \in PeriodInvocationCounts, errors \in PeriodErrorCounts :
        /\ Window(invocations, errors)
        /\ lastPeriod' = [invocations |-> invocations, errors |-> errors]

HealthInit ==
    /\ Init
    /\ functionConfig.deploymentPreference
           \in { "LINEAR_10PERCENT_EVERY_1MINUTE", "CANARY_10PERCENT_5MINUTES" }

HealthNext ==
    \/ StartDeployment
    \/ ApplyStep
    \/ ObservedPeriod
    \/ Cancel
    \/ StepFails

HealthSpec == HealthInit /\ [][HealthNext]_vars

\* Timer-driven progress with the observed periods.
FairHealthSpec ==
    /\ HealthSpec
    /\ WF_vars(ApplyStep)
    /\ WF_vars(ObservedPeriod)

\* ------------------------------------------------------ derived observations
N == functionConfig.evaluationPeriods

Verdicts(h) == [i \in 1..Len(h) |-> h[i].verdict]

\* Length of the run of BREACH verdicts that ends the history.
RECURSIVE TrailingBreaches(_)
TrailingBreaches(h) ==
    IF h = << >> THEN 0
    ELSE IF h[Len(h)].verdict = "BREACH"
         THEN 1 + TrailingBreaches(SubSeq(h, 1, Len(h) - 1))
         ELSE 0

\* Longest run of consecutive BREACH verdicts anywhere in the history.
LongestBreachRun(h) ==
    LET runs == { TrailingBreaches(SubSeq(h, 1, i)) : i \in 0..Len(h) }
    IN  CHOOSE r \in runs : \A q \in runs : q <= r

Scenario ==
    /\ errorAlarm
    /\ deploymentConfig = "LINEAR_10PERCENT_EVERY_1MINUTE"
    /\ functionConfig.errorRateThreshold = 5
    /\ N = 2

\* ------------------------------------------------------------------ claims

\* C1: with the error alarm attached to the deployment group, rollback is
\* signalled at the verdict that completes a run of evaluationPeriods
\* consecutive BREACH verdicts: never while the run is shorter, never later
\* than its completion, and at most once per deployment.
C1_RollbackAtNthConsecutiveBreach ==
    errorAlarm =>
        /\ rollbackSignals \in {0, 1}
        /\ (rollbackSignals = 1) <=> (rollbackReason = "ALARM")
        /\ (rollbackSignals = 1) <=> (TrailingBreaches(history) = N)
        /\ TrailingBreaches(history) <= N

C1_Witness ==
    /\ errorAlarm
    /\ N = 3
    /\ rollbackSignals = 1
    /\ Verdicts(history) = << "BREACH", "OK", "BREACH", "BREACH", "BREACH" >>

\* C2: a deployment that is ROLLED_BACK, by the alarm or by being stopped,
\* leaves the alias split at exactly {stable:100, candidate:0}.
C2_RolledBackSplitIsStable ==
    state = "ROLLED_BACK" => split = [stable |-> 100, candidate |-> 0]

C2_Witness ==
    /\ state = "ROLLED_BACK"
    /\ rollbackReason = "ALARM"
    /\ currentStepIndex >= 2
    /\ history[Len(history)].percentage = 20

\* C5: a non-breaching verdict (OK or INSUFFICIENT_DATA) resets the run, so
\* rollback is never signalled while the longest run of consecutive BREACH
\* verdicts is shorter than evaluationPeriods; in particular
\* BREACH, BREACH, OK, BREACH, BREACH with evaluationPeriods = 3 signals nothing.
C5_InterleavedOkResets ==
    errorAlarm =>
        /\ (LongestBreachRun(history) < N => rollbackSignals = 0)
        /\ (N = 3 /\ Verdicts(history) = << "BREACH", "BREACH", "OK", "BREACH", "BREACH" >>)
                => (rollbackSignals = 0 /\ rollbackReason # "ALARM")

C5_Witness ==
    /\ errorAlarm
    /\ N = 3
    /\ Verdicts(history) = << "BREACH", "BREACH", "OK", "BREACH", "BREACH" >>
    /\ state = "MONITORING"

\* C6: a deployment that is neither rolled back nor stopped applies the steps
\* of its plan one by one in order and ends SUCCEEDED with the alias on the
\* candidate version and all traffic on it; a LINEAR 10% plan takes exactly
\* 10 steps.  Under timer fairness every started deployment gets there unless
\* a rollback intervenes.
C6_SuccessPromotesCandidate ==
    /\ [](state = "SUCCEEDED" =>
            /\ currentStepIndex = Len(steps)
            /\ split = [stable |-> 0, candidate |-> 100]
            /\ stableVersion = candidateVersion
            /\ candidateVersion = 2
            /\ rollbackReason = "NONE"
            /\ (ConfigType(deploymentConfig) = "LINEAR" => currentStepIndex = 10))
    /\ [][currentStepIndex' # currentStepIndex =>
            /\ currentStepIndex' = currentStepIndex + 1
            /\ split'.candidate = steps[currentStepIndex'].percentage]_vars
    /\ (state = "SHIFTING") ~> (state = "SUCCEEDED" \/ rollbackReason # "NONE")

C6_Witness ==
    /\ state = "SUCCEEDED"
    /\ ConfigType(deploymentConfig) = "LINEAR"
    /\ currentStepIndex = 10
    /\ stableVersion = 2
    /\ \A i \in 1..Len(history) : history[i].verdict = "OK"
    /\ Len(history) = MaxHistory

C8_CanaryAndAllAtOncePlans ==
    state # "IDLE" =>
        /\ ConfigType(deploymentConfig) = "CANARY" =>
              steps = << [percentage |-> 10, interval |-> ConfigInterval(deploymentConfig)],
                         [percentage |-> 100, interval |-> 0] >>
        /\ ConfigType(deploymentConfig) = "ALL_AT_ONCE" =>
              steps = << [percentage |-> 100, interval |-> 0] >>
        /\ ConfigType(deploymentConfig) \in { "CANARY", "ALL_AT_ONCE" } =>
              (Len(steps) > 0 /\ steps[Len(steps)].percentage = 100)

C8_Witness ==
    /\ deploymentConfig = "CANARY_10PERCENT_5MINUTES"
    /\ state = "MONITORING"
    /\ split.candidate = 10
    /\ elapsed = 4

\* C9 as stated: in the scenario, when the run of two breaching windows
\* begins with the window of the 30% step, the deployment rolls back at the
\* 30% step and no step above 30% is ever applied.
C9_Original ==
    (Scenario /\ rollbackReason = "ALARM" /\ history[Len(history) - 1].percentage = 30) =>
        /\ currentStepIndex = 3
        /\ history[Len(history)].percentage = 30
        /\ split = [stable |-> 100, candidate |-> 0]

\* C9 amended: in the scenario a first breaching window does not hold the
\* step, so the 40% step is applied on schedule, the second consecutive
\* breaching window is observed there, and the deployment rolls back at the
\* 40% step: no step above 40% is applied and the split ends {100, 0}.
C9_RollbackOneStepLater ==
    (Scenario /\ rollbackReason = "ALARM" /\ history[Len(history) - 1].percentage = 30) =>
        /\ currentStepIndex = 4
        /\ history[Len(history)].percentage = 40
        /\ state = "ROLLED_BACK"
        /\ split = [stable |-> 100, candidate |-> 0]

C9_Witness ==
    /\ Scenario
    /\ rollbackReason = "ALARM"
    /\ Len(history) = 4
    /\ history[3] = [percentage |-> 30, verdict |-> "BREACH"]
    /\ history[4] = [percentage |-> 40, verdict |-> "BREACH"]
    /\ state = "ROLLED_BACK"

\* C10 as stated: a preference outside the known names is rejected, so no
\* deployment is ever started with it and the split never moves.
C10_Original ==
    functionConfig.deploymentPreference \notin KnownPreferences =>
        /\ state = "IDLE"
        /\ split = [stable |-> 100, candidate |-> 0]

\* C10 amended: nothing is rejected; wherever a deployment group is created,
\* a preference outside the known names is replaced by
\* LINEAR_10PERCENT_EVERY_1MINUTE and deployments follow its ten-step plan.
C10_UnknownPreferenceFallsBack ==
    (functionConfig.deploymentPreference \notin KnownPreferences /\ deploymentGroup) =>
        /\ deploymentConfig = "LINEAR_10PERCENT_EVERY_1MINUTE"
        /\ state # "IDLE" =>
              /\ Len(steps) = 10
              /\ \A k \in 1..10 : steps[k].percentage = 10 * k
              /\ \A k \in 1..9 : steps[k].interval = 1

C10_Witness ==
    /\ functionConfig.deploymentPreference \notin KnownPreferences
    /\ deploymentGroup
    /\ state = "SUCCEEDED"
    /\ split.candidate = 100

\* The verdict the alarm gave for the last observed period.
LastVerdict == history[Len(history)].verdict

PeriodEvaluated == errorAlarm /\ Len(history) > 0

\* C11 as stated: a period with zero invocations is INSUFFICIENT_DATA whatever
\* its error count; otherwise BREACH exactly when errors / max(errors,
\* invocations) exceeds the threshold, and OK otherwise.
C11_Original ==
    PeriodEvaluated =>
        LET i == lastPeriod.invocations
            e == lastPeriod.errors
            t == functionConfig.errorRateThreshold
        IN  /\ (i = 0) => (LastVerdict = "INSUFFICIENT_DATA")
            /\ (i # 0) => /\ (LastVerdict = "BREACH") <=> (e * 100 > t * Max(e, i))
                          /\ LastVerdict \in { "BREACH", "OK" }

\* C11: the verdict is INSUFFICIENT_DATA exactly when the period has neither
\* invocations nor errors; otherwise it is BREACH exactly when
\* errors / max(errors, invocations) is strictly above the threshold and OK
\* otherwise.  The rate is errors / invocations when errors <= invocations and
\* 1 when errors exceed invocations (zero invocations with errors included),
\* and a rate equal to the threshold is OK.
C11_VerdictFollowsGuardedRate ==
    PeriodEvaluated =>
        LET i == lastPeriod.invocations
            e == lastPeriod.errors
            t == functionConfig.errorRateThreshold
        IN  /\ (LastVerdict = "INSUFFICIENT_DATA") <=> (i = 0 /\ e = 0)
            /\ (i > 0 \/ e > 0) => LastVerdict \in { "BREACH", "OK" }
            /\ (i > 0 /\ e <= i) => ((LastVerdict = "BREACH") <=> (e * 100 > t * i))
            /\ (e > i) => ((LastVerdict = "BREACH") <=> (100 > t))
            /\ (i > 0 /\ e * 100 = t * i) => (LastVerdict = "OK")

\* A period whose rate equals the threshold (1 error in 20 invocations at 5%)
\* was evaluated as OK.
C11_Witness ==
    /\ PeriodEvaluated
    /\ lastPeriod = [invocations |-> 20, errors |-> 1]
    /\ functionConfig.errorRateThreshold = 5
    /\ LastVerdict = "OK"

C13_AlarmsDisabledNoVerdictRollback ==
    /\ [](~functionConfig.alarmsEnabled =>
            /\ ~errorAlarm
            /\ history = << >>
            /\ rollbackSignals = 0
            /\ rollbackReason # "ALARM"
            /\ (state = "ROLLED_BACK") => (rollbackReason = "STOPPED")
            /\ (state = "SUCCEEDED") =>
                   /\ currentStepIndex = Len(steps)
                   /\ split = SplitFor(100))
    /\ [][ (~functionConfig.alarmsEnabled /\ lastPeriod' # lastPeriod) =>
              /\ state' \in { "MONITORING", "SHIFTING" }
              /\ elapsed' = elapsed + 1
              /\ split' = split ]_vars

\* A deployment without alarms succeeded although its last period had an
\* error rate above the threshold.
C13_Witness ==
    /\ ~functionConfig.alarmsEnabled
    /\ deploymentGroup
    /\ state = "SUCCEEDED"
    /\ lastPeriod = [invocations |-> 10, errors |-> 1]
    /\ functionConfig.errorRateThreshold = 5

\* The split in force before the step the deployment is about to apply.
SplitBeforeStep ==
    IF currentStepIndex = 0 THEN StableOnly
    ELSE SplitFor(steps[currentStepIndex].percentage)

ScenarioPool ==
    /\ scalableTarget
    /\ functionConfig.provisionedConcurrency = 2
    /\ autoScaling = [enabled |-> TRUE, minCapacity |-> 1, maxCapacity |-> 10,
                      utilizationTarget |-> 70]

\* C14: after every adjustment, whatever the utilization samples were, the
\* pool's current size is within [minCapacity, maxCapacity]; in the scenario
\* pool a sample of 95% increases the size until it is 10 and never takes it
\* above 10.
C14_PoolWithinBounds ==
    /\ []((scalableTarget /\ warmPool.utilization # NoSample) =>
             /\ autoScaling.minCapacity <= warmPool.current
             /\ warmPool.current <= autoScaling.maxCapacity)
    /\ [][ (ScenarioPool /\ warmPool'.utilization = 95 /\ warmPool' # warmPool) =>
              /\ warmPool'.current >= warmPool.current
              /\ warmPool'.current <= 10
              /\ (warmPool.current < 10) => (warmPool'.current > warmPool.current) ]_vars

\* The scenario pool has grown from 2 to its maximum under 95% samples.
C14_Witness ==
    /\ ScenarioPool
    /\ warmPool = [current |-> 10, utilization |-> 95]

\* Requests that obtained an id from incrementCounter.
Numbered == { r \in 1..MaxRequests : requests[r].newId # 0 }

Quiescent == \A r \in 1..MaxRequests : requests[r].pc \in { "none", "done" }

Posts == { r \in 1..MaxRequests : requests[r].route = "POST /phrases" }

\* C15: under any interleaving of POST /phrases requests no two requests hold
\* the same id from incrementCounter, and no step replaces or removes a phrase
\* the table already stores.
C15_DistinctIds ==
    /\ [](\A r1, r2 \in Numbered : (r1 # r2) => (requests[r1].newId # requests[r2].newId))
    /\ [][ \A id \in PhraseIds(table) :
              id \in DOMAIN table' /\ table'[id] = table[id] ]_vars

\* Two requests ran concurrently: the later one got the smaller id and both
\* phrases are stored under their own ids.
C15_Witness ==
    /\ requests[1].status = 201
    /\ requests[2].status = 201
    /\ requests[2].newId < requests[1].newId
    /\ table[requests[1].newId].phrase = requests[1].body.phrase
    /\ table[requests[2].newId].phrase = requests[2].body.phrase
    /\ requests[1].body.phrase # requests[2].body.phrase

\* C16: once no request is in flight, the ids of the stored phrases are
\* exactly 1..counter, so the counter equals the number of phrases added.
C16_IdsFormSequence ==
    Quiescent =>
        /\ PhraseIds(table) = 1..GetCounter(table)
        /\ GetCounter(table) = Cardinality(PhraseIds(table))

\* C17: the counter is its value before the run plus the number of requests
\* that incremented it, so when every POST of the run was answered 201 it is
\* the previous value plus their number; on an empty table the first
\* increment yields id 1, and GET /counter answered on the empty table
\* returns 0.
C17_NoLostUpdate ==
    /\ [](GetCounter(table) = initialCounter + Cardinality(Numbered))
    /\ []((Quiescent /\ \A r \in Posts : requests[r].status = 201) =>
             GetCounter(table) = initialCounter + Cardinality(Posts))
    /\ [][ (table = EmptyTable /\ table' # table) =>
              /\ GetCounter(table') = 1
              /\ \E r \in 1..MaxRequests : requests[r].newId = 0 /\ requests'[r].newId = 1 ]_vars
    /\ [][ \A r \in 1..MaxRequests :
              ( /\ table = EmptyTable
                /\ requests[r].route = "GET /counter"
                /\ requests[r].pc = "received"
                /\ requests'[r].pc = "done" )
              => (requests'[r].status = 200 /\ requests'[r].data = 0) ]_vars

\* Three concurrent POSTs on a table whose counter was 1 were all answered
\* 201, not in their order of arrival, and the counter is 4.
C17_Witness ==
    /\ initialCounter = 1
    /\ Posts = 1..MaxRequests
    /\ \A r \in Posts : requests[r].status = 201
    /\ requests[MaxRequests].newId < requests[1].newId
    /\ GetCounter(table) = 1 + MaxRequests

\* A phrase the API must refuse: missing, empty, not a string, or longer than
\* 100 characters.
InvalidPhrase(phrase) ==
    \/ phrase.type # "string"
    \/ phrase.length = 0
    \/ phrase.length > 100

\* C18: a POST /phrases whose body carries an invalid phrase is answered 400
\* by a step that leaves the table unchanged, and the request never obtains
\* an id; a phrase of exactly 100 characters passes validation, is never
\* answered 400, and is answered 201 with the phrase stored unless a table
\* command fails.
C18_InvalidPhraseRejected ==
    /\ [](\A r \in Posts :
            (requests[r].body.present /\ InvalidPhrase(requests[r].body.phrase)) =>
                /\ requests[r].newId = 0
                /\ requests[r].status \in { 0, 400 }
                /\ (requests[r].pc = "done") => (requests[r].status = 400))
    /\ [](\A r \in Posts :
            (requests[r].body.present /\ requests[r].body.phrase = Str(100)) =>
                /\ requests[r].status \in { 0, 201, 500 }
                /\ (requests[r].status = 201) =>
                       /\ requests[r].newId \in PhraseIds(table)
                       /\ table[requests[r].newId].phrase = Str(100)
                /\ (requests[r].status = 500) => (requests[r].pc = "done"))
    /\ [][ \A r \in 1..MaxRequests :
              (requests[r].status = 0 /\ requests'[r].status = 400) =>
                  table' = table ]_vars
    /\ [][ \A r \in 1..MaxRequests :
              ( /\ requests[r].pc = "received"
                /\ requests[r].route = "POST /phrases"
                /\ requests[r].body.present
                /\ requests[r].body.phrase = Str(100)
                /\ requests'[r] # requests[r] )
              => requests'[r].pc = "incrementCounter" ]_vars

\* A phrase of 101 characters was refused and one of 100 characters stored;
\* only the accepted one moved the counter.
C18_Witness ==
    /\ requests[1].body = [present |-> TRUE, phrase |-> Str(101)]
    /\ requests[1].status = 400
    /\ requests[2].body = [present |-> TRUE, phrase |-> Str(100)]
    /\ requests[2].status = 201
    /\ requests[3].pc = "none"
    /\ GetCounter(table) = initialCounter + 1
    /\ Cardinality(PhraseIds(table)) = initialCounter + 1

\* C29: the alias exists exactly when provisionedConcurrency > 0, the
\* deployment group exactly when codeDeploy is enabled and the alias exists,
\* the error alarm exactly when the group exists and alarms are enabled; with
\* codeDeploy enabled and provisionedConcurrency = 0 there is no group, no
\* alarm, and no deployment or rollback ever takes place.
C29_ConstructsFollowConfiguration ==
    /\ alias <=> (functionConfig.provisionedConcurrency > 0)
    /\ deploymentGroup <=> (functionConfig.codeDeployEnabled /\ alias)
    /\ errorAlarm <=> (deploymentGroup /\ functionConfig.alarmsEnabled)
    /\ deploymentGroup => alias
    /\ errorAlarm => deploymentGroup
    /\ (functionConfig.codeDeployEnabled /\ functionConfig.provisionedConcurrency = 0) =>
           /\ ~deploymentGroup
           /\ ~errorAlarm
           /\ deploymentConfig = "NONE"
           /\ state = "IDLE"
           /\ split = StableOnly
           /\ rollbackReason = "NONE"

\* codeDeploy and its alarms are enabled but nothing is provisioned: the
\* construct has neither alias nor group nor alarm.
C29_Witness ==
    /\ functionConfig.codeDeployEnabled
    /\ functionConfig.alarmsEnabled
    /\ functionConfig.provisionedConcurrency = 0
    /\ ~alias
    /\ ~deploymentGroup
    /\ ~errorAlarm

StateEdges ==
    { <<"IDLE", "SHIFTING">>, <<"SHIFTING", "MONITORING">>, <<"MONITORING", "SHIFTING">>,
      <<"SHIFTING", "SUCCEEDED">>,
      <<"SHIFTING", "ROLLED_BACK">>, <<"MONITORING", "ROLLED_BACK">>,
      <<"SHIFTING", "FAILED">>, <<"MONITORING", "FAILED">> }

StoredPhrases(t) == { t[id] : id \in { i \in DOMAIN t : i > 0 } }

\* Request r is answered in this step.
Answered(r) == requests[r].pc # "done" /\ requests'[r].pc = "done"

IsNumber(chars) ==
    LET digits == IF chars # << >> /\ Head(chars) = "-" THEN Tail(chars) ELSE chars
    IN  /\ digits # << >>
        /\ \A i \in 1..Len(digits) : digits[i] \in Digits

\* C27: GET /phrases/{id}, when its read succeeds, answers 400 when the id is
\* empty, is not a number, or is zero or negative; 404 'Phrase not found' when
\* the id is a positive number and no phrase has it; and 200 with the stored
\* phrase otherwise; the table is left as it was.
C27_InvalidIdIs400 ==
    [][\A r \in 1..MaxRequests :
          (Answered(r) /\ requests[r].route = "GET /phrases/{id}") =>
              LET id == requests[r].event.id
                  invalid == id = << >> \/ ~IsNumber(id) \/ ParseInt(id).value <= 0
              IN  /\ table' = table
                  /\ (requests'[r].status # 500) =>
                        IF invalid THEN requests'[r].status = 400
                        ELSE IF ParseInt(id).value \notin DOMAIN table
                             THEN /\ requests'[r].status = 404
                                  /\ requests'[r].error = "Phrase not found"
                        ELSE /\ requests'[r].status = 200
                             /\ requests'[r].items = <<table[ParseInt(id).value]>>]_vars

\* The item is the counter record, not a phrase.
IsCounterRecord(item) ==
    /\ item.id = COUNTER_ID
    /\ "counter" \in DOMAIN item
    /\ "phrase" \notin DOMAIN item

\* The counter as the item under id 0 gives it, 0 when it gives none.
CounterOf(t) ==
    IF COUNTER_ID \in DOMAIN t /\ "counter" \in DOMAIN t[COUNTER_ID]
    THEN t[COUNTER_ID].counter
    ELSE 0

\* Every item but the one under id 0 has an id in 1..counter, and the item
\* under id 0 is the counter record.
PhrasesWithinCounter(t) ==
    /\ \A id \in DOMAIN t \ { COUNTER_ID } : id \in 1..CounterOf(t)
    /\ (COUNTER_ID \in DOMAIN t) => IsCounterRecord(t[COUNTER_ID])

\* C28: in every state the API can reach, a createPhrase that failed after
\* its incrementCounter included, every stored phrase has an id in 1..counter
\* and the item under id 0 is the counter record; no step decreases the
\* counter, and none removes the counter record or puts a phrase in its place.
C28_CounterBoundsPhrases ==
    /\ []PhrasesWithinCounter(table)
    /\ [][/\ CounterOf(table') >= CounterOf(table)
          /\ (COUNTER_ID \in DOMAIN table) =>
                (COUNTER_ID \in DOMAIN table' /\ IsCounterRecord(table'[COUNTER_ID]))]_vars

\* A createPhrase failed after its increment (id 1 is lost) and a later
\* request stored its phrase under id 2.
C28_Witness ==
    /\ requests[1].status = 500
    /\ requests[1].newId = 1
    /\ 1 \notin DOMAIN table
    /\ requests[2].status = 201
    /\ requests[2].newId = 2
    /\ 2 \in DOMAIN table
    /\ GetCounter(table) = 2

\* ------------------------------------------------------- errors and routing
\* The methods and paths for which the handler has a route.
Matched(event) ==
    \/ event.httpMethod = "POST" /\ event.path = "/phrases"
    \/ event.httpMethod = "GET" /\ event.path \in { "/phrases", "/phrases/", "/counter" }

\* POST /phrases whose body is absent or is not JSON.
UnparsableAdd(r) ==
    /\ requests[r].event = Event("POST", "/phrases", << >>)
    /\ \/ ~requests[r].body.present
       \/ requests[r].body.phrase.type = "malformed"

\* C30: the handler has a next step for every request it has not yet
\* answered, and every answer has one of the statuses 200, 201, 400, 404 and
\* 500; POST /phrases with an absent body or
\* a body that is not JSON is answered 500 'Internal server error', not 400,
\* with the counter and the phrases unchanged; OPTIONS on any path is answered
\* 200 without touching the table; any other method and path without a route
\* is answered 404.
C30_HandlerAlwaysAnswers ==
    /\ [](\A r \in 1..MaxRequests :
            /\ (requests[r].pc = "done") => (requests[r].status \in { 200, 201, 400, 404, 500 })
            /\ (requests[r].pc \notin { "none", "done" }) =>
                  ENABLED (RouteNext /\ requests'[r] # requests[r]))
    /\ [][\A r \in 1..MaxRequests :
            Answered(r) =>
                /\ UnparsableAdd(r) =>
                      /\ requests[r].pc = "received"
                      /\ requests'[r].status = 500
                      /\ requests'[r].error = "Internal server error"
                      /\ table' = table
                /\ (requests[r].event.httpMethod = "OPTIONS") =>
                      /\ requests[r].pc = "received"
                      /\ requests'[r].status = 200
                      /\ table' = table
                /\ (requests[r].event.httpMethod # "OPTIONS" /\ ~Matched(requests[r].event)) =>
                      /\ requests[r].pc = "received"
                      /\ requests'[r].status = 404
                      /\ table' = table]_vars

\* A POST /phrases whose body is not JSON was answered 500 and an OPTIONS on a
\* path without a route was answered 200, the table still empty.
C30_Witness ==
    /\ requests[1].event = Event("POST", "/phrases", << >>)
    /\ requests[1].body = [present |-> TRUE, phrase |-> Malformed]
    /\ requests[1].status = 500
    /\ requests[1].error = "Internal server error"
    /\ requests[2].event = Event("OPTIONS", "/health", << >>)
    /\ requests[2].status = 200
    /\ table = EmptyTable

====
